---------------------------- MODULE Spec2Model ----------------------------
(***************************************************************************)
(* A model of src/file_format/macho.rs: the Mach-O page scanner, the       *)
(* pointer-size probe, the Symbols session (new / iter / find_address),    *)
(* the file-offset map and slice_read.                                     *)
(*                                                                         *)
(* Process memory and the module's file are byte arrays.  A u32 / u64 is   *)
(* the little-endian value of 4 / 8 bytes (the target is wasm32, the       *)
(* inspected images are little-endian).  The four magic numbers do not     *)
(* fit TLC's integers and are kept as their 4 bytes in memory order.       *)
(* u64 arithmetic is kept modulo 2^AddrBits.                               *)
(***************************************************************************)
EXTENDS Integers, Sequences, FiniteSets, TLC

VARIABLES
    overflow_checks,  \* build profile: TRUE = arithmetic overflow panics (dev), FALSE = wraps (release)
    mem,              \* process memory: [addresses mapped -> byte]
    file,             \* what reading the module's file gives: Ok(bytes) or Err
    buf_base,         \* address (mod 8) at which the allocator placed the file buffer
    session,          \* the Symbols value: NoSession or a record of its fields
    it,               \* the iterator returned by iter(): NoIter or [j, yielded, done]
    prev_full,        \* what the iterator before `it` yielded, if it was exhausted: None or Some(sequence)
    call,             \* the last call: [op, arg]
    result,           \* what the last call returned
    reads,            \* the addresses the last call passed to process.read, in order
    fs_reads,         \* the number of file-system calls the last call made
    accepted          \* the file's symbol-table entry the last call accepted: None or Some(j)

vars == <<overflow_checks, mem, file, buf_base, session, it, prev_full,
          call, result, reads, fs_reads, accepted>>

-----------------------------------------------------------------------------
(* Bounds of the model *)

\* width of a u64 in the model: arithmetic on addresses and lengths is mod 2^AddrBits
AddrBits == 16
\* the ranges handed to the scanner start in 0 .. MaxBasePage pages (plus a byte offset)
MaxBasePage == 2
\* the ranges handed to the scanner are at most MaxLenPages pages long (plus a byte count)
MaxLenPages == 2

U64 == 2 ^ AddrBits

-----------------------------------------------------------------------------
(* Option / Result values *)

None == [tag |-> "None"]
Some(v) == [tag |-> "Some", val |-> v]
Panic == [tag |-> "Panic"]
Err == [tag |-> "Err"]
Ok(v) == [tag |-> "Ok", val |-> v]

NoIter == [tag |-> "NoIter"]

IsSome(r) == r.tag = "Some"
IsOk(r) == r.tag = "Ok"

Min(S) == CHOOSE m \in S : \A n \in S : m <= n
Max(S) == CHOOSE m \in S : \A n \in S : m >= n

-----------------------------------------------------------------------------
(* Constants of macho.rs *)

CSTR == 128
PAGE_SIZE == 4096
\* 0xfeedface, 0xcefaedfe, 0xfeedfacf, 0xcffaedfe as the 4 bytes a u32 read sees
MH_MAGIC_32 == <<206, 250, 237, 254>>
MH_CIGAM_32 == <<254, 237, 250, 206>>
MH_MAGIC_64 == <<207, 250, 237, 254>>
MH_CIGAM_64 == <<254, 237, 250, 207>>
LC_SYMTAB == 2
LC_SEGMENT_64 == 25
HEADER_SIZE == 32
SIGNATURE_SIZE == 20

\* MachOFormatOffsets::new()
offsets ==
    [ number_of_commands |-> 16,
      load_commands      |-> 32,
      command_size       |-> 4,
      symtab_offset      |-> 8,
      number_of_symbols  |-> 12,
      strtab_offset      |-> 16,
      nlist_value        |-> 8,
      size_of_nlist_item |-> 16,
      segcmd64_vmaddr    |-> 24,
      segcmd64_fileoff   |-> 40 ]

-----------------------------------------------------------------------------
(* Process memory: Address arithmetic and Process::read *)

\* Address + integer
AddrAdd(a, n) == (a + n) % U64

\* the little-endian value of a byte sequence
RECURSIVE LEValue(_)
LEValue(bytes) ==
    IF bytes = <<>> THEN 0 ELSE Head(bytes) + 256 * LEValue(Tail(bytes))

\* process.read::<[u8; n]>(a): all n bytes must be mapped
ReadBytes(m, a, n) ==
    IF \A i \in 0 .. n - 1 : AddrAdd(a, i) \in DOMAIN m
    THEN Ok([i \in 1 .. n |-> m[AddrAdd(a, i - 1)]])
    ELSE Err

\* process.read::<u32>(a) and process.read::<u64>(a), as numbers
ReadNum(m, a, n) ==
    LET r == ReadBytes(m, a, n) IN IF IsOk(r) THEN Ok(LEValue(r.val)) ELSE Err

ReadU32(m, a) == ReadNum(m, a, 4)
ReadU64(m, a) == ReadNum(m, a, 8)

-----------------------------------------------------------------------------
(* scan_macho_page *)

Magics == {MH_MAGIC_64, MH_CIGAM_64, MH_MAGIC_32, MH_CIGAM_32}

\* line 38: the negation of addr mod PAGE_SIZE
DistanceToPage(addr) == (PAGE_SIZE - (addr % PAGE_SIZE)) % PAGE_SIZE

\* line 41: (len - distance_to_page) / PAGE_SIZE; the u64 subtraction panics
\* with overflow checks and wraps without them
ScanPageCount(addr, len) ==
    LET d == DistanceToPage(addr) IN
    IF len >= d THEN Ok((len - d) \div PAGE_SIZE)
    ELSE IF overflow_checks THEN Err
    ELSE Ok(((len - d) % U64) \div PAGE_SIZE)

\* line 42
ScanPageAddr(addr, i) == AddrAdd(AddrAdd(addr, DistanceToPage(addr)), i * PAGE_SIZE)

\* line 43-44: the read succeeds with one of the four magic numbers
IsMagicAt(m, a) ==
    LET r == ReadBytes(m, a, 4) IN IsOk(r) /\ r.val \in Magics

\* the indices of the loop at which the match arm returns
ScanHits(m, addr, len) ==
    {i \in 0 .. ScanPageCount(addr, len).val - 1 : IsMagicAt(m, ScanPageAddr(addr, i))}

\* the pages the loop reads, in order: up to the first hit, or all of them
ScanReads(m, addr, len) ==
    LET c == ScanPageCount(addr, len) IN
    IF ~IsOk(c) THEN <<>>
    ELSE LET hits == ScanHits(m, addr, len)
             last == IF hits = {} THEN c.val - 1 ELSE Min(hits)
         IN  [k \in 1 .. last + 1 |-> ScanPageAddr(addr, k - 1)]

\* scan_macho_page(process, (addr, len)): Some(a), None, or a panic
scan_macho_page(m, addr, len) ==
    LET c == ScanPageCount(addr, len) IN
    IF ~IsOk(c) THEN Panic
    ELSE LET hits == ScanHits(m, addr, len) IN
         IF hits = {} THEN None ELSE Some(ScanPageAddr(addr, Min(hits)))

-----------------------------------------------------------------------------
(* pointer_size *)

pointer_size(m, addr, len) ==
    LET p == scan_macho_page(m, addr, len) IN
    IF p.tag = "Panic" THEN Panic
    ELSE IF p.tag = "None" THEN None
    ELSE LET r == ReadBytes(m, p.val, 4) IN
         IF ~IsOk(r) THEN None
         ELSE IF r.val \in {MH_MAGIC_64, MH_CIGAM_64} THEN Some("Bit64")
         ELSE IF r.val \in {MH_MAGIC_32, MH_CIGAM_32} THEN Some("Bit32")
         ELSE None

-----------------------------------------------------------------------------
(* fileoff_to_vmaddr: the BTreeMap is a function from its keys to its values *)

EmptyMap == [k \in {} |-> 0]

\* BTreeMap::insert: a later insert with the same key replaces the value
MapInsert(map, k, v) == [x \in DOMAIN map \cup {k} |-> IF x = k THEN v ELSE map[x]]

\* (line 261 computes v + fileoff - k in u64; the maps and offsets of the model
\* keep v + fileoff far below 2^64)

\* the entry with the least key at or below fileoff, in place of the greatest
fileoff_to_vmaddr_first(map, fileoff) ==
    LET below == {k \in DOMAIN map : k <= fileoff} IN
    IF below = {} THEN fileoff
    ELSE LET k == Min(below) IN map[k] + fileoff - k

fileoff_to_vmaddr(map, fileoff) ==
    LET below == {k \in DOMAIN map : k <= fileoff} IN
    IF below = {} THEN fileoff
    ELSE LET k == Max(below) IN map[k] + fileoff - k

-----------------------------------------------------------------------------
(* Symbols::new *)

NoSession == [tag |-> "NoSession"]

\* the locals of the load-command loop before its first iteration (lines 150-155)
WalkInit ==
    [ next |-> offsets.load_commands, symtab_fileoff |-> 0, number_of_symbols |-> 0,
      strtab_fileoff |-> 0, map |-> EmptyMap, read |-> <<>> ]

\* one iteration of the loop of lines 156-169 on the locals st: Ok(locals) or Err
\* when a read fails (the `?` returns None from new)
WalkStep(m, page, st) ==
    LET at == AddrAdd(page, st.next)
        cmdtype == ReadU32(m, at)
        symoff == ReadU32(m, AddrAdd(at, offsets.symtab_offset))
        nsyms == ReadU32(m, AddrAdd(at, offsets.number_of_symbols))
        stroff == ReadU32(m, AddrAdd(at, offsets.strtab_offset))
        vmaddr == ReadU64(m, AddrAdd(at, offsets.segcmd64_vmaddr))
        fileoff == ReadU64(m, AddrAdd(at, offsets.segcmd64_fileoff))
        command_size == ReadU32(m, AddrAdd(at, offsets.command_size))
    IN
    IF ~IsOk(cmdtype) THEN Err
    ELSE IF cmdtype.val = LC_SYMTAB /\ ~(IsOk(symoff) /\ IsOk(nsyms) /\ IsOk(stroff)) THEN Err
    ELSE IF cmdtype.val = LC_SEGMENT_64 /\ ~(IsOk(vmaddr) /\ IsOk(fileoff)) THEN Err
    ELSE IF ~IsOk(command_size) THEN Err
    ELSE Ok([ next |-> st.next + command_size.val,
              symtab_fileoff |->
                  IF cmdtype.val = LC_SYMTAB THEN symoff.val ELSE st.symtab_fileoff,
              number_of_symbols |->
                  IF cmdtype.val = LC_SYMTAB THEN nsyms.val ELSE st.number_of_symbols,
              strtab_fileoff |->
                  IF cmdtype.val = LC_SYMTAB THEN stroff.val ELSE st.strtab_fileoff,
              map |->
                  IF cmdtype.val = LC_SEGMENT_64
                  THEN MapInsert(st.map, fileoff.val, vmaddr.val) ELSE st.map,
              read |-> Append(st.read, cmdtype.val) ])

\* the loop: n more iterations from the locals st
RECURSIVE WalkCommands(_, _, _, _)
WalkCommands(m, page, n, st) ==
    IF n = 0 THEN Ok(st)
    ELSE LET s1 == WalkStep(m, page, st) IN
         IF IsOk(s1) THEN WalkCommands(m, page, n - 1, s1.val) ELSE Err

\* the command types the loop of new reads from the header at page: Ok(sequence),
\* or Err when a read of the walk fails
CommandsRead(m, page) ==
    LET n == ReadU32(m, AddrAdd(page, offsets.number_of_commands)) IN
    IF ~IsOk(n) THEN Err
    ELSE LET w == WalkCommands(m, page, n.val, WalkInit) IN
         IF IsOk(w) THEN Ok(w.val.read) ELSE Err

\* Symbols::new(process, module_name, (addr, len)): Some(session), None or a panic
SymbolsNew(m, addr, len) ==
    LET p == scan_macho_page(m, addr, len) IN
    IF p.tag = "Panic" THEN Panic
    ELSE IF p.tag = "None" THEN None
    ELSE
    LET page == p.val
        n == ReadU32(m, AddrAdd(page, offsets.number_of_commands))
    IN
    IF ~IsOk(n) THEN None
    ELSE
    LET w == WalkCommands(m, page, n.val, WalkInit) IN
    IF ~IsOk(w) THEN None
    ELSE IF \/ w.val.symtab_fileoff = 0
            \/ w.val.number_of_symbols = 0
            \/ w.val.strtab_fileoff = 0
    THEN None
    ELSE Some([ module_range |-> <<addr, len>>,
                page |-> page,
                symtab_fileoff |-> w.val.symtab_fileoff,
                number_of_symbols |-> w.val.number_of_symbols,
                strtab_fileoff |-> w.val.strtab_fileoff,
                map_fileoff_to_vmaddr |-> w.val.map,
                symtab_vmaddr |-> fileoff_to_vmaddr(w.val.map, w.val.symtab_fileoff),
                strtab_vmaddr |-> fileoff_to_vmaddr(w.val.map, w.val.strtab_fileoff) ])

-----------------------------------------------------------------------------
(* Symbols::iter *)

\* the address of entry j without the header page
NlistItemAddr_nopage(s, j) ==
    AddrAdd(s.symtab_vmaddr, j * offsets.size_of_nlist_item)

\* line 197-198: the address of entry j
NlistItemAddr(s, j) ==
    AddrAdd(AddrAdd(s.page, s.symtab_vmaddr), j * offsets.size_of_nlist_item)

\* the closure of filter_map for index j: Some(Symbol), or None when a read fails
IterItem(s, m, j) ==
    LET nlist_item == NlistItemAddr(s, j)
        symname_offset == ReadU32(m, nlist_item)
        symbol_fileoff == ReadU64(m, AddrAdd(nlist_item, offsets.nlist_value))
    IN
    IF ~IsOk(symname_offset) THEN None
    ELSE IF ~IsOk(symbol_fileoff) THEN None
    ELSE Some([ address |->
                    AddrAdd(s.page,
                            fileoff_to_vmaddr(s.map_fileoff_to_vmaddr, symbol_fileoff.val)),
                name_addr |->
                    AddrAdd(AddrAdd(s.page, s.strtab_vmaddr), symname_offset.val) ])

\* the first index at or after j that yields a symbol, or number_of_symbols
RECURSIVE IterSkip(_, _, _)
IterSkip(s, m, j) ==
    IF j >= s.number_of_symbols THEN s.number_of_symbols
    ELSE IF IsSome(IterItem(s, m, j)) THEN j
    ELSE IterSkip(s, m, j + 1)

\* everything a fresh iter() yields from index j on
RECURSIVE IterFrom(_, _, _)
IterFrom(s, m, j) ==
    LET k == IterSkip(s, m, j) IN
    IF k >= s.number_of_symbols THEN <<>>
    ELSE <<IterItem(s, m, k).val>> \o IterFrom(s, m, k + 1)

\* an iterator that goes on where the one before it stopped
IterStart_resume(s) == IF it # NoIter THEN it.j ELSE 0

\* iter(): the range starts at 0
IterStart(s) == 0

-----------------------------------------------------------------------------
(* Symbol::get_name and the live path of find_address *)

\* the bytes before the first NUL, or all of them
RECURSIVE UpToNul(_)
UpToNul(bytes) ==
    IF bytes = <<>> \/ Head(bytes) = 0 THEN <<>>
    ELSE <<Head(bytes)>> \o UpToNul(Tail(bytes))

\* symbol.get_name::<CSTR>(process): the CSTR bytes at name_addr, as a C string
GetName(m, sym) ==
    LET r == ReadBytes(m, sym.name_addr, CSTR) IN
    IF IsOk(r) THEN Ok(UpToNul(r.val)) ELSE Err

\* the predicate of find() on line 218-222
LiveMatches(m, sym, symbol_name) ==
    LET n == GetName(m, sym) IN IsOk(n) /\ n.val = symbol_name

\* line 218-224: the first symbol of iter() the predicate accepts
FindLive(s, m, symbol_name) ==
    LET syms == IterFrom(s, m, IterStart(s))
        hits == {i \in 1 .. Len(syms) : LiveMatches(m, syms[i], symbol_name)}
    IN  IF hits = {} THEN None ELSE Some(syms[Min(hits)].address)

-----------------------------------------------------------------------------
(* slice_read and the file path of find_address *)

\* &all_bytes[off..]: the bytes and the address of the first
SliceFrom(bytes, ptr, off) ==
    [bytes |-> SubSeq(bytes, off + 1, Len(bytes)), ptr |-> ptr + off]

\* slice_read::<T>(slice, address) for a T of `size` bytes aligned to `align`:
\* the index expression of line 284 panics out of range, try_from_bytes is Err
\* for a misaligned source
slice_read(slice, address, size, align) ==
    IF address + size > Len(slice.bytes) THEN Panic
    ELSE IF (slice.ptr + address) % align # 0 THEN Err
    ELSE Ok(SubSeq(slice.bytes, address + 1, address + size))

\* memchr::memmem::find(haystack, needle)
MemFind(haystack, needle) ==
    LET n == Len(needle)
        at == {o \in 0 .. Len(haystack) - n : SubSeq(haystack, o + 1, o + n) = needle}
    IN  IF at = {} THEN None ELSE Some(Min(at))

\* Signature::Simple(sig).scan_process_range(process, (addr, len)): the first
\* address of the range where the bytes are read
ScanProcessRange(m, sig, addr, len) ==
    LET n == Len(sig)
        at == {a \in DOMAIN m :
                 /\ addr <= a /\ a + n <= addr + len
                 /\ m[a] = sig[1]
                 /\ ReadBytes(m, a, n) = Ok(sig)}
    IN  IF at = {} THEN None ELSE Some(Min(at))

\* the name's bytes without the NUL after them
FileNameMatches_prefix(macho_bytes, string_start, symbol_name) ==
    SubSeq(macho_bytes, string_start + 1, string_start + Len(symbol_name)) = symbol_name

\* line 241-242: the NUL after the name, then the name's bytes
FileNameMatches(macho_bytes, string_start, symbol_name) ==
    LET string_end == string_start + Len(symbol_name) IN
    /\ macho_bytes[string_end + 1] = 0
    /\ SubSeq(macho_bytes, string_start + 1, string_end) = symbol_name

\* the outcome of the file path: what is returned, and the index of the entry
\* whose name was accepted (None when none was)
FileOutcome(res, entry) == [res |-> res, entry |-> entry]

\* the loop of lines 236-250 from index j on
RECURSIVE FileLoop(_, _, _, _, _)
FileLoop(s, m, mb, symbol_name, j) ==
    IF j >= s.number_of_symbols THEN FileOutcome(None, None)
    ELSE
    LET nlist_item == s.symtab_fileoff + j * offsets.size_of_nlist_item
        symname_offset == slice_read(mb, nlist_item, 4, 4)
    IN
    IF symname_offset.tag = "Panic" THEN FileOutcome(Panic, None)
    ELSE IF symname_offset.tag = "Err" THEN FileOutcome(None, None)
    ELSE
    LET string_start == s.strtab_fileoff + LEValue(symname_offset.val)
        string_end == string_start + Len(symbol_name)
    IN
    IF string_end >= Len(mb.bytes) THEN FileOutcome(Panic, None)
    ELSE IF FileNameMatches(mb.bytes, string_start, symbol_name)
    THEN LET symbol_fileoff == slice_read(mb, nlist_item + offsets.nlist_value, 8, 8) IN
         IF symbol_fileoff.tag = "Panic" THEN FileOutcome(Panic, Some(j))
         ELSE IF symbol_fileoff.tag = "Err" THEN FileOutcome(None, Some(j))
         ELSE LET file_contents ==
                      slice_read(mb, LEValue(symbol_fileoff.val), SIGNATURE_SIZE, 1)
              IN  IF file_contents.tag = "Panic" THEN FileOutcome(Panic, Some(j))
                  ELSE FileOutcome(ScanProcessRange(m, file_contents.val,
                                                    s.module_range[1], s.module_range[2]),
                                   Some(j))
    ELSE FileLoop(s, m, mb, symbol_name, j + 1)

\* lines 228-250: f is what get_module_path and file_read_all_bytes give
FindInFile(s, m, f, ptr, symbol_name) ==
    IF ~IsOk(f) THEN FileOutcome(None, None)
    ELSE
    LET macho_header == ReadBytes(m, s.page, HEADER_SIZE) IN
    IF ~IsOk(macho_header) THEN FileOutcome(None, None)
    ELSE
    LET macho_offset == MemFind(f.val, macho_header.val) IN
    IF ~IsSome(macho_offset) THEN FileOutcome(None, None)
    ELSE FileLoop(s, m, SliceFrom(f.val, ptr, macho_offset.val), symbol_name, 0)

\* find_address(symbol_name): res is what it returns, fs the file-system calls it
\* made (get_module_path, then the read of the file), entry the file entry accepted
find_address(s, m, f, ptr, symbol_name) ==
    LET live == FindLive(s, m, symbol_name) IN
    IF IsSome(live) THEN [res |-> live, fs |-> 0, entry |-> None]
    ELSE LET o == FindInFile(s, m, f, ptr, symbol_name) IN
         [res |-> o.res, fs |-> IF IsOk(f) THEN 2 ELSE 1, entry |-> o.entry]

-----------------------------------------------------------------------------
(* The images the inspected process and its file are drawn from: a Mach-O   *)
(* dylib of two segments (text at file offset 0, link-edit data at          *)
(* LinkeditOff), three symbols and their 20-byte code.                      *)

RECURSIVE LE(_, _)
LE(n, k) == IF k = 0 THEN <<>> ELSE <<n % 256>> \o LE(n \div 256, k - 1)

Zeros(k) == [i \in 1 .. k |-> 0]
PadTo(bytes, n) == bytes \o Zeros(n - Len(bytes))

\* mach_header_64: magic, cputype, cpusubtype, filetype, ncmds, sizeofcmds, flags, reserved
HeaderBytes(magic, ncmds) ==
    magic \o <<7, 0, 0, 1>> \o LE(3, 4) \o LE(6, 4) \o LE(ncmds, 4) \o LE(168, 4) \o Zeros(8)

\* segment_command_64 (72 bytes): cmd, cmdsize, segname, vmaddr, vmsize, fileoff, ...
SegmentCmd(vmaddr, fileoff) ==
    LE(LC_SEGMENT_64, 4) \o LE(72, 4) \o Zeros(16) \o LE(vmaddr, 8) \o LE(256, 8)
        \o LE(fileoff, 8) \o Zeros(24)

\* symtab_command (24 bytes): cmd, cmdsize, symoff, nsyms, stroff, strsize
SymtabCmd(symoff, nsyms, stroff) ==
    LE(LC_SYMTAB, 4) \o LE(24, 4) \o LE(symoff, 4) \o LE(nsyms, 4) \o LE(stroff, 4) \o LE(16, 4)

\* uuid_command (24 bytes): a command the walker skips by its size
UuidCmd == LE(27, 4) \o LE(24, 4) \o Zeros(16)

\* nlist_64 (16 bytes): n_strx, n_type, n_sect, n_desc, n_value
Nlist(strx, value) == LE(strx, 4) \o <<15, 1>> \o LE(0, 2) \o LE(value, 8)

\* the layout: header, three load commands (72 + 72 + 24 bytes), the code of the
\* symbols, the symbol table, the string table
NSyms == 3
TextOff == HEADER_SIZE + 168 + 8
LinkeditOff == TextOff + 2 * (SIGNATURE_SIZE + 4)
StrtabOff == LinkeditOff + NSyms * offsets.size_of_nlist_item
FileLen == StrtabOff + 16

Name_foo == <<102, 111, 111>>
Name_foobar == <<102, 111, 111, 98, 97, 114>>
Name_bar == <<98, 97, 114>>
Name_fo == <<102, 111>>
Name_baz == <<98, 97, 122>>
Name_foobaz == <<102, 111, 111, 98, 97, 122>>
Names == {Name_foo, Name_foobar, Name_bar, Name_fo, Name_baz, Name_foobaz}

\* "\0foo\0foobar\0bar\0": foo at 1, foobar at 5, bar at 12
Strtab == <<0>> \o Name_foo \o <<0>> \o Name_foobar \o <<0>> \o Name_bar \o <<0>>

\* the code of the symbols: 20 bytes at TextOff, 20 other bytes at TextOff + 24
Code(k) == [i \in 1 .. SIGNATURE_SIZE |-> 16 * k + i]

\* the load commands of an image, by kind
CmdBytes(kind, linkvm) ==
    LET seg1 == SegmentCmd(0, 0)
        seg2 == SegmentCmd(linkvm, LinkeditOff)
    IN
    CASE kind = "full"     -> seg1 \o seg2 \o SymtabCmd(LinkeditOff, NSyms, StrtabOff)
      [] kind = "symfirst" -> SymtabCmd(LinkeditOff, NSyms, StrtabOff) \o seg1 \o seg2
      [] kind = "nosymtab" -> seg1 \o seg2 \o UuidCmd
      [] kind = "zerosyms" -> seg1 \o seg2 \o SymtabCmd(LinkeditOff, 0, StrtabOff)
      [] kind = "zerostr"  -> seg1 \o seg2 \o SymtabCmd(LinkeditOff, NSyms, 0)
      [] kind = "zerosym"  -> seg1 \o seg2 \o SymtabCmd(0, NSyms, StrtabOff)
      [] kind = "noseg"    -> UuidCmd \o SymtabCmd(LinkeditOff, NSyms, StrtabOff)

\* the entries after the third: more symbols named "bar"
RECURSIVE MoreSyms(_)
MoreSyms(n) == IF n <= 0 THEN <<>> ELSE Nlist(12, TextOff) \o MoreSyms(n - 1)

\* the symbol table, by the order and the contents of its first three entries
FirstSyms(order) ==
    CASE order = "foo_first"    ->
             Nlist(1, TextOff) \o Nlist(5, TextOff + 24) \o Nlist(12, TextOff)
      [] order = "foobar_first" ->
             Nlist(5, TextOff + 24) \o Nlist(1, TextOff) \o Nlist(12, TextOff)
      [] order = "wild_name"    ->
             Nlist(200, TextOff) \o Nlist(1, TextOff) \o Nlist(12, TextOff)
      [] order = "wild_value"   ->
             Nlist(1, FileLen - 8) \o Nlist(5, TextOff + 24) \o Nlist(12, TextOff)

SymBytes(order) == FirstSyms(order) \o MoreSyms(NSyms - 3)

\* the Mach-O image as the linker wrote it
ImageBytes(magic, kind, linkvm, order) ==
    PadTo(PadTo(HeaderBytes(magic, IF kind = "noseg" THEN 2 ELSE 3)
                    \o CmdBytes(kind, linkvm), TextOff)
              \o Code(1) \o Zeros(4) \o Code(2),
          LinkeditOff)
        \o SymBytes(order) \o Strtab

\* bytes placed at address a
Place(bytes, a) == [x \in a .. a + Len(bytes) - 1 |-> bytes[x - a + 1]]

\* the address the image is loaded at, and the space mapped after the link-edit data
LoadPage == 2 * PAGE_SIZE
LinkeditVmSize == 2 * CSTR

\* the process memory of a loaded image: the text segment at LoadPage, the
\* link-edit segment at LoadPage + linkvm; live says what the process did to it
LoadedMemory(magic, kind, linkvm, order, live) ==
    LET img == ImageBytes(magic, kind, linkvm, order)
        text == SubSeq(img, 1, LinkeditOff)
        syms == SubSeq(img, LinkeditOff + 1, StrtabOff)
        strs == SubSeq(img, StrtabOff + 1, FileLen)
        link == CASE live = "intact"   -> syms \o strs
                  [] live = "stripped" -> syms \o Zeros(Len(strs))
                  [] live = "hole"     -> syms \o strs
                  [] live = "unmapped" -> <<>>
        base == LoadPage + linkvm
        all == Place(PadTo(link, IF link = <<>> THEN 0 ELSE LinkeditVmSize), base)
                   @@ Place(text, LoadPage)
        gone == IF live = "hole" THEN base + 16 .. base + 31 ELSE {}
    IN  [a \in DOMAIN all \ gone |-> all[a]]

-----------------------------------------------------------------------------
(* The environments: a loaded image, the file behind it, the build *)

MainKinds == {"full", "symfirst", "nosymtab", "zerosyms", "zerostr", "zerosym", "noseg"}
Orders == {"foo_first", "foobar_first", "wild_name", "wild_value"}
LinkVms == {PAGE_SIZE, 2 * LinkeditOff}
\* the lengths a file is cut to: inside entry 0, inside the name "foo", inside
\* the last name, not at all
Cuts == {LinkeditOff + 2, StrtabOff + 3, FileLen - 2, FileLen}
\* bytes before the Mach-O header in the file (a fat binary)
Prepads == {0, 4, 8}

EnvOf(kind, linkvm, order, live, fkind, cut, prepad) ==
    [kind |-> kind, linkvm |-> linkvm, order |-> order, live |-> live,
     fkind |-> fkind, cut |-> cut, prepad |-> prepad]

\* images that differ in their load commands
ConstructionEnvs ==
    {EnvOf(k, v, "foo_first", l, "ok", FileLen, 0) :
        k \in MainKinds, v \in LinkVms, l \in {"intact", "unmapped"}}

\* images that differ in their symbols and in what of them is readable
IterationEnvs ==
    {EnvOf("full", v, o, l, "ok", FileLen, 0) :
        v \in LinkVms, o \in Orders, l \in {"intact", "stripped", "hole", "unmapped"}}

\* images whose names are not readable in memory, with the files behind them
FileEnvs ==
    {EnvOf("full", PAGE_SIZE, o, l, "ok", c, 0) :
        o \in Orders, l \in {"stripped", "unmapped"}, c \in Cuts}
    \cup {EnvOf("full", PAGE_SIZE, o, l, "ok", FileLen, p) :
        o \in Orders, l \in {"stripped", "unmapped"}, p \in Prepads}
    \cup {EnvOf("full", PAGE_SIZE, o, l, f, FileLen, 0) :
        o \in Orders, l \in {"stripped", "unmapped"}, f \in {"err", "other"}}

Envs == ConstructionEnvs \cup IterationEnvs \cup FileEnvs

EnvMemory(e) == LoadedMemory(MH_MAGIC_64, e.kind, e.linkvm, e.order, e.live)

EnvFile(e) ==
    CASE e.fkind = "err"   -> Err
      [] e.fkind = "other" ->
             Ok(ImageBytes(MH_CIGAM_64, e.kind, e.linkvm, e.order))
      [] e.fkind = "ok"    ->
             Ok(SubSeq(Zeros(e.prepad)
                          \o ImageBytes(MH_MAGIC_64, e.kind, e.linkvm, e.order),
                       1, e.prepad + e.cut))

\* the module ranges new is called with: the image's pages, a wider range around
\* them, a range before the image, a range shorter than its distance to the next page
ModuleRanges ==
    { <<LoadPage, 2 * PAGE_SIZE>>, <<PAGE_SIZE, 3 * PAGE_SIZE>>,
      <<0, PAGE_SIZE>>, <<LoadPage - 7, 5>> }

BufBases == {0, 4}

-----------------------------------------------------------------------------
(* The calls *)

NoCall == [op |-> "none"]

Idle ==
    /\ session = NoSession /\ it = NoIter /\ prev_full = None
    /\ call = NoCall /\ result = None /\ reads = <<>> /\ fs_reads = 0
    /\ accepted = None

Init ==
    /\ overflow_checks \in BOOLEAN
    /\ \E e \in Envs : mem = EnvMemory(e) /\ file = EnvFile(e)
    /\ buf_base \in BufBases
    /\ Idle

\* Symbols::new(process, module_name, r)
New(r) ==
    LET s == SymbolsNew(mem, r[1], r[2]) IN
    /\ session = NoSession
    /\ call' = [op |-> "new", range |-> r]
    /\ result' = s
    /\ session' = IF IsSome(s) THEN s.val ELSE NoSession
    /\ reads' = <<>>
    /\ fs_reads' = 0
    /\ accepted' = None
    /\ UNCHANGED <<overflow_checks, mem, file, buf_base, it, prev_full>>

\* symbols.iter(): a new iterator; the one before it is dropped
Iter ==
    /\ session # NoSession
    /\ it' = [tag |-> "Iter", j |-> IterStart(session), yielded |-> <<>>, done |-> FALSE]
    /\ prev_full' = IF it # NoIter /\ it.done THEN Some(it.yielded) ELSE None
    /\ call' = [op |-> "iter"]
    /\ result' = None
    /\ reads' = <<>>
    /\ fs_reads' = 0
    /\ accepted' = None
    /\ UNCHANGED <<overflow_checks, mem, file, buf_base, session>>

\* the addresses the closure reads for index j: the value is not read when the
\* read of the name offset fails
ItemReads(s, m, j) ==
    LET nlist_item == NlistItemAddr(s, j) IN
    IF IsOk(ReadU32(m, nlist_item))
    THEN <<nlist_item, AddrAdd(nlist_item, offsets.nlist_value)>>
    ELSE <<nlist_item>>

\* the addresses next() reads for the indices j .. k
RECURSIVE IterReads(_, _, _, _)
IterReads(s, m, j, k) ==
    IF j > k THEN <<>> ELSE ItemReads(s, m, j) \o IterReads(s, m, j + 1, k)

\* next() on the iterator: the next index whose reads succeed, or the end
IterNext ==
    /\ it # NoIter
    /\ ~it.done
    /\ LET k == IterSkip(session, mem, it.j) IN
       IF k >= session.number_of_symbols
       THEN /\ it' = [it EXCEPT !.j = k, !.done = TRUE]
            /\ result' = None
            /\ reads' = IterReads(session, mem, it.j, k - 1)
       ELSE /\ it' = [it EXCEPT !.j = k + 1,
                                !.yielded = Append(@, IterItem(session, mem, k).val)]
            /\ result' = Some(IterItem(session, mem, k).val)
            /\ reads' = IterReads(session, mem, it.j, k)
    /\ call' = [op |-> "next"]
    /\ fs_reads' = 0
    /\ accepted' = None
    /\ UNCHANGED <<overflow_checks, mem, file, buf_base, session, prev_full>>

\* symbols.find_address(name)
FindAddress(name) ==
    /\ session # NoSession
    /\ it = NoIter
    /\ LET r == find_address(session, mem, file, buf_base, name) IN
       /\ result' = r.res
       /\ fs_reads' = r.fs
       /\ accepted' = r.entry
    /\ call' = [op |-> "find_address", name |-> name]
    /\ reads' = <<>>
    /\ UNCHANGED <<overflow_checks, mem, file, buf_base, session, it, prev_full>>

Next ==
    \/ \E r \in ModuleRanges : New(r)
    \/ Iter
    \/ IterNext
    \/ \E name \in Names : FindAddress(name)

Spec == Init /\ [][Next]_vars

-----------------------------------------------------------------------------
(* The page scanner and pointer_size on their own: memory is a 4-byte word  *)
(* (or nothing) at the start of each of five pages                          *)

\* the words a page may start with; <<>> is an unmapped page
PageWords(p) ==
    CASE p = 0 -> {<<>>, MH_MAGIC_32}
      [] p = 1 -> {<<>>, Zeros(4), MH_MAGIC_64}
      [] p = 2 -> {<<>>, <<206, 250, 237, 0>>, MH_MAGIC_64, MH_CIGAM_64,
                   MH_MAGIC_32, MH_CIGAM_32}
      [] p = 3 -> {<<>>, MH_CIGAM_32}
      [] p = 4 -> {<<>>, MH_MAGIC_64}

ScanPages == 0 .. 4

ScanMemory(w) ==
    [a \in {p * PAGE_SIZE + i : p \in ScanPages, i \in 0 .. 3}
            \ {p * PAGE_SIZE + i : p \in {q \in ScanPages : w[q] = <<>>}, i \in 0 .. 3}
        |-> w[a \div PAGE_SIZE][(a % PAGE_SIZE) + 1]]

ScanMemories ==
    {ScanMemory(w) : w \in {v \in [ScanPages -> UNION {PageWords(p) : p \in ScanPages}] :
                               \A p \in ScanPages : v[p] \in PageWords(p)}}

\* the ranges: a base on a page boundary, one byte after it or five bytes before
\* the next, and a length of whole pages or five bytes more
ScanRanges ==
    { <<b * PAGE_SIZE + o, l * PAGE_SIZE + x>> :
        b \in 0 .. MaxBasePage, o \in {0, 1, PAGE_SIZE - 5},
        l \in 0 .. MaxLenPages, x \in {0, 5} }

InitScan ==
    /\ overflow_checks \in BOOLEAN
    /\ mem \in ScanMemories
    /\ file = Err
    /\ buf_base = 0
    /\ Idle

\* scan_macho_page(process, r)
Scan(r) ==
    /\ call = NoCall
    /\ call' = [op |-> "scan_macho_page", range |-> r]
    /\ result' = scan_macho_page(mem, r[1], r[2])
    /\ reads' = ScanReads(mem, r[1], r[2])
    /\ UNCHANGED <<overflow_checks, mem, file, buf_base, session, it, prev_full,
                   fs_reads, accepted>>

\* pointer_size(process, r)
PointerSize(r) ==
    LET p == scan_macho_page(mem, r[1], r[2]) IN
    /\ call = NoCall
    /\ call' = [op |-> "pointer_size", range |-> r]
    /\ result' = pointer_size(mem, r[1], r[2])
    /\ reads' = ScanReads(mem, r[1], r[2]) \o (IF IsSome(p) THEN <<p.val>> ELSE <<>>)
    /\ UNCHANGED <<overflow_checks, mem, file, buf_base, session, it, prev_full,
                   fs_reads, accepted>>

NextScan ==
    \/ \E r \in ScanRanges : Scan(r)
    \/ \E r \in ScanRanges : PointerSize(r)

SpecScan == InitScan /\ [][NextScan]_vars

-----------------------------------------------------------------------------
(* fileoff_to_vmaddr on its own: the maps are the partial functions from    *)
(* MapKeys to MapVals                                                       *)

MapKeys == {0, 2048, 8192}
MapVals == {0, 4096, 16384}
MapOffsets == {0, 1280, 2047, 2048, 8192, 9472}
Maps == UNION {[K -> MapVals] : K \in SUBSET MapKeys}

InitMap ==
    /\ overflow_checks = FALSE
    /\ mem = EmptyMap
    /\ file = Err
    /\ buf_base = 0
    /\ Idle

Translate(map, fileoff) ==
    /\ call = NoCall
    /\ call' = [op |-> "fileoff_to_vmaddr", map |-> map, fileoff |-> fileoff]
    /\ result' = Ok(fileoff_to_vmaddr(map, fileoff))
    /\ UNCHANGED <<overflow_checks, mem, file, buf_base, session, it, prev_full,
                   reads, fs_reads, accepted>>

NextMap == \E map \in Maps, fileoff \in MapOffsets : Translate(map, fileoff)

SpecMap == InitMap /\ [][NextMap]_vars

-----------------------------------------------------------------------------
(* The claims about the page scanner and pointer_size (SpecScan) *)

\* every page boundary of the address space
AllPageAddrs == {k * PAGE_SIZE : k \in 0 .. (U64 \div PAGE_SIZE) - 1}

\* C1: scan_macho_page returns the lowest multiple of 4096 in [base, base+len)
\* at which the 4-byte read gives one of the four magic numbers, pages that fail
\* or read otherwise being skipped, and nothing when there is no such address.
C1_LowestMagicPageInRange ==
    call.op = "scan_macho_page" =>
        LET base == call.range[1]
            len == call.range[2]
            hits == {a \in AllPageAddrs : base <= a /\ a < base + len /\ IsMagicAt(mem, a)}
        IN  result = IF hits = {} THEN None ELSE Some(Min(hits))

\* C10: for every range, also one shorter than the distance from base to the next
\* page boundary, the subtraction len - distance_to_page does not go below zero,
\* every address read is a multiple of 4096 inside [base, base+len), and at most
\* len / 4096 rounded up pages are read.
C10_ScanStaysInRange ==
    call.op = "scan_macho_page" =>
        LET base == call.range[1]
            len == call.range[2]
        IN  /\ result.tag # "Panic"
            /\ \A i \in 1 .. Len(reads) :
                   /\ reads[i] % PAGE_SIZE = 0
                   /\ base <= reads[i] /\ reads[i] < base + len
            /\ Len(reads) <= (len + PAGE_SIZE - 1) \div PAGE_SIZE

\* C8: pointer_size returns 64-bit when the word at the header the scanner located
\* is 0xfeedfacf or 0xcffaedfe, 32-bit when it is 0xfeedface or 0xcefaedfe, and
\* nothing when no header is located, the read fails or the word is another.
C8_PointerSizeClassifies ==
    call.op = "pointer_size" =>
        LET located == scan_macho_page(mem, call.range[1], call.range[2])
            word == IF IsSome(located) THEN ReadBytes(mem, located.val, 4) ELSE Err
        IN  IF IsOk(word) /\ word.val \in {MH_MAGIC_64, MH_CIGAM_64}
            THEN result = Some("Bit64")
            ELSE IF IsOk(word) /\ word.val \in {MH_MAGIC_32, MH_CIGAM_32}
            THEN result = Some("Bit32")
            ELSE result = None

-----------------------------------------------------------------------------
(* The claim about fileoff_to_vmaddr (SpecMap) *)

\* C4: fileoff_to_vmaddr returns entry.vmaddr + (f - entry.fileoff) for the entry
\* with the greatest fileoff <= f, and f itself when no entry has fileoff <= f;
\* with {0 -> 0x1000, 0x2000 -> 0x4000}, 0x2500 gives 0x4500 and 0x500 gives 0x1500.
C4_FloorEntryTranslation ==
    call.op = "fileoff_to_vmaddr" =>
        LET map == call.map
            f == call.fileoff
        IN  /\ (\A k \in DOMAIN map : k > f) => result = Ok(f)
            /\ \A k \in DOMAIN map :
                   (k <= f /\ \A k2 \in DOMAIN map : k2 <= f => k2 <= k)
                       => result = Ok(map[k] + (f - k))
            /\ (DOMAIN map = {0, 8192} /\ map[0] = 4096 /\ map[8192] = 16384) =>
                   /\ f = 9472 => result = Ok(17664)
                   /\ f = 1280 => result = Ok(5376)

\* a map of two entries, queried above its second key: the first entry does not apply
C4_Witness ==
    /\ call.op = "fileoff_to_vmaddr"
    /\ DOMAIN call.map = {0, 8192} /\ call.map[0] = 4096 /\ call.map[8192] = 16384
    /\ call.fileoff = 9472
    /\ result = Ok(17664)

-----------------------------------------------------------------------------
(* The claims about the Symbols session (Spec) *)

\* the command types of the table new walked, when every read of the walk succeeded
WalkedCommands(page) ==
    LET c == CommandsRead(mem, page) IN
    IF IsOk(c) THEN {c.val[i] : i \in 1 .. Len(c.val)} ELSE {}

\* C3: new returns nothing whenever the load-command table read from the located
\* header has no LC_SYMTAB command (valid LC_SEGMENT_64 commands or not), whenever
\* the captured symbol count or string-table offset is zero, and whenever no
\* header page is found; it returns a session only when a symbol-table command
\* with a nonzero count and a nonzero string-table offset was read.
C3_NewNeedsSymtab ==
    call.op = "new" =>
        LET located == scan_macho_page(mem, call.range[1], call.range[2])
            n == ReadU32(mem, AddrAdd(located.val, offsets.number_of_commands))
            walk == WalkCommands(mem, located.val, n.val, WalkInit)
        IN  /\ ~IsSome(located) => result = None
            /\ (IsSome(located) /\ IsOk(CommandsRead(mem, located.val))) =>
                   /\ LC_SYMTAB \notin WalkedCommands(located.val) => result = None
                   /\ (walk.val.number_of_symbols = 0 \/ walk.val.strtab_fileoff = 0)
                          => result = None
            /\ IsSome(result) =>
                   /\ IsSome(located)
                   /\ LC_SYMTAB \in WalkedCommands(located.val)
                   /\ result.val.number_of_symbols # 0
                   /\ result.val.strtab_fileoff # 0

\* the Mach-O image inside the file: the bytes from where the live header occurs
DiskImage ==
    LET hdr == ReadBytes(mem, session.page, HEADER_SIZE)
        off == IF IsOk(file) /\ IsOk(hdr) THEN MemFind(file.val, hdr.val) ELSE None
    IN  IF IsSome(off) THEN Some(SubSeq(file.val, off.val + 1, Len(file.val))) ELSE None

\* the position in the image of the name of entry j, when entry j is in the image
DiskNamePos(img, j) ==
    LET e == session.symtab_fileoff + j * offsets.size_of_nlist_item IN
    IF e + offsets.size_of_nlist_item <= Len(img)
    THEN Some(session.strtab_fileoff + LEValue(SubSeq(img, e + 1, e + 4)))
    ELSE None

\* the NUL-terminated name stored at position pos of the image, when there is one
DiskNameAt(img, pos) ==
    IF pos < Len(img) /\ \E i \in pos + 1 .. Len(img) : img[i] = 0
    THEN Some(UpToNul(SubSeq(img, pos + 1, Len(img))))
    ELSE None

\* the entries of the on-disk symbol table that carry the name
DiskEntries(name) ==
    LET img == DiskImage IN
    IF ~IsSome(img) THEN {}
    ELSE {j \in 0 .. session.number_of_symbols - 1 :
            /\ IsSome(DiskNamePos(img.val, j))
            /\ DiskNameAt(img.val, DiskNamePos(img.val, j).val) = Some(name)}

\* C2: find_address tries live memory first: when a symbol of iter() has the
\* queried name the result is the address of the first such symbol and the file
\* system is not read; when none has but the on-disk symbol table holds the name,
\* the result is what the pattern scanner returns for the 20 bytes at that
\* symbol's file offset; when the name is in neither, the result is nothing.
C2_LiveThenFile ==
    call.op = "find_address" =>
        LET name == call.name
            syms == IterFrom(session, mem, 0)
            live == {i \in 1 .. Len(syms) : LiveMatches(mem, syms[i], name)}
            disk == DiskEntries(name)
        IN  /\ live # {} => result = Some(syms[Min(live)].address) /\ fs_reads = 0
            /\ (live = {} /\ disk # {}) =>
                   LET img == DiskImage.val
                       e == session.symtab_fileoff + Min(disk) * offsets.size_of_nlist_item
                       v == LEValue(SubSeq(img, e + 9, e + 16))
                   IN  /\ v + SIGNATURE_SIZE <= Len(img)
                       /\ result = ScanProcessRange(mem, SubSeq(img, v + 1, v + SIGNATURE_SIZE),
                                                    session.module_range[1],
                                                    session.module_range[2])
            /\ (live = {} /\ disk = {}) => result = None

\* C6: every failure in the file path of find_address ends with the result
\* "nothing", never with a crash: for every file content and every cached
\* symtab_fileoff, strtab_fileoff and number_of_symbols.
C6_FileFailuresAreNothing ==
    call.op = "find_address" => result.tag \in {"Some", "None"}

\* C5: the file path accepts an entry for a queried name only if the file bytes
\* at its string-table position equal the name byte for byte and the byte after
\* them is 0: the stored name is the queried name, neither a longer one that
\* starts with it nor a shorter one it starts with.
C5_NulBoundaryExact ==
    (call.op = "find_address" /\ IsSome(accepted)) =>
        LET img == DiskImage.val
            name == call.name
            pos == DiskNamePos(img, accepted.val).val
        IN  /\ IsSome(DiskImage)
            /\ IsSome(DiskNamePos(img, accepted.val))
            /\ pos + Len(name) < Len(img)
            /\ \A i \in 1 .. Len(name) : img[pos + i] = name[i]
            /\ img[pos + Len(name) + 1] = 0
            /\ DiskNameAt(img, pos) = Some(name)

\* "foo" is looked up in a file whose entry 0 is "foobar": entry 0 is passed over
\* and entry 1, "foo", is accepted
C5_Witness ==
    /\ call.op = "find_address" /\ call.name = Name_foo
    /\ accepted = Some(1)
    /\ IsSome(DiskImage)
    /\ DiskNameAt(DiskImage.val, DiskNamePos(DiskImage.val, 0).val) = Some(Name_foobar)
    /\ IsSome(result)

\* the indices whose two reads succeed, and the i-th of them
ReadableIndices ==
    {j \in 0 .. session.number_of_symbols - 1 :
        /\ IsOk(ReadU32(mem, NlistItemAddr(session, j)))
        /\ IsOk(ReadU64(mem, AddrAdd(NlistItemAddr(session, j), offsets.nlist_value)))}

NthReadable(i) ==
    CHOOSE j \in ReadableIndices : Cardinality({k \in ReadableIndices : k < j}) = i - 1

C7_Yielded ==
    it # NoIter =>
        /\ Len(it.yielded) <= session.number_of_symbols
        /\ it.done =>
               /\ Len(it.yielded) = Cardinality(ReadableIndices)
               /\ \A i \in 1 .. Len(it.yielded) :
                      it.yielded[i] = IterItem(session, mem, NthReadable(i)).val
        /\ (it.done /\ IsSome(prev_full)) => it.yielded = prev_full.val

\* C7: iter yields at most number_of_symbols symbols, those of the indices whose
\* reads succeed, in increasing index order; two successive full iterations of a
\* session over the same memory yield the same sequence; iterating changes no
\* field of the session.
C7_IterRestartable ==
    /\ []C7_Yielded
    /\ [][call'.op \in {"iter", "next"} => session' = session]_vars

\* a second full iteration that skipped an index and yielded the others
C7_Witness ==
    /\ it # NoIter /\ it.done /\ IsSome(prev_full)
    /\ Len(it.yielded) > 0
    /\ Len(it.yielded) < session.number_of_symbols

\* the statement of C9 with the addresses taken relative to `origin`
EntryAddresses(origin) ==
    LET E(k) == AddrAdd(AddrAdd(origin, session.symtab_vmaddr),
                        k * offsets.size_of_nlist_item)
    IN
    /\ session # NoSession =>
           /\ session.symtab_vmaddr =
                  fileoff_to_vmaddr(session.map_fileoff_to_vmaddr, session.symtab_fileoff)
           /\ session.strtab_vmaddr =
                  fileoff_to_vmaddr(session.map_fileoff_to_vmaddr, session.strtab_fileoff)
    /\ call.op = "next" =>
           \A i \in 1 .. Len(reads) :
               \E k \in 0 .. session.number_of_symbols - 1 :
                   reads[i] \in {E(k), AddrAdd(E(k), offsets.nlist_value)}
    /\ (call.op = "next" /\ IsSome(result)) =>
           LET j == it.j - 1
               name_offset == ReadU32(mem, E(j))
               value == ReadU64(mem, AddrAdd(E(j), offsets.nlist_value))
           IN  /\ Len(reads) >= 2
               /\ reads[Len(reads) - 1] = E(j)
               /\ reads[Len(reads)] = AddrAdd(E(j), offsets.nlist_value)
               /\ IsOk(name_offset) /\ IsOk(value)
               /\ result.val.name_addr =
                      AddrAdd(AddrAdd(origin, session.strtab_vmaddr), name_offset.val)
               /\ result.val.address =
                      AddrAdd(origin,
                              fileoff_to_vmaddr(session.map_fileoff_to_vmaddr, value.val))

\* C9 as claimed: the entry of index j is read at symtab_vmaddr + j * 16, the
\* name's address is strtab_vmaddr + name_offset, and the symbol's address is the
\* translation of the 64-bit value at entry + 8, where symtab_vmaddr and
\* strtab_vmaddr are the translations of the file offsets cached by new.
C9_AsClaimed == EntryAddresses(0)

\* C9 amended: the three addresses are offsets from the header page: the entry is
\* read at page + symtab_vmaddr + j * 16, the name's address is page +
\* strtab_vmaddr + name_offset, and the symbol's address is page + the
\* translation of the 64-bit value at entry + 8.
C9_RelativeToPage == session # NoSession => EntryAddresses(session.page)

\* next() yielded the symbol of an index after the first, from an image whose
\* link-edit segment is mapped away from its file offset
C9_Witness ==
    /\ call.op = "next" /\ IsSome(result)
    /\ it.j >= 2
    /\ session.page # 0
    /\ session.symtab_vmaddr # session.symtab_fileoff

-----------------------------------------------------------------------------
(* What the code does where C1, C10, C8, C3 and C2 fail *)

\* the subtraction of line 41 does not underflow for the range of the call
NoUnderflow == call.range[2] >= DistanceToPage(call.range[1])

\* with C1: when len - distance_to_page does not underflow, the scanner returns
\* the lowest page boundary at or after base whose whole page lies in the range
\* and starts with a magic number
ScanWholePages ==
    (call.op = "scan_macho_page" /\ NoUnderflow) =>
        LET base == call.range[1]
            len == call.range[2]
            hits == {a \in AllPageAddrs :
                       base <= a /\ a + PAGE_SIZE <= base + len /\ IsMagicAt(mem, a)}
        IN  result = IF hits = {} THEN None ELSE Some(Min(hits))

\* with C10: when the subtraction does not underflow, the reads stay in the range
ScanInRangeWithoutUnderflow ==
    (call.op = "scan_macho_page" /\ NoUnderflow) => C10_ScanStaysInRange

\* with C8 and C3: pointer_size and new are as claimed whenever the scanner
\* does not panic
ClassifiesUnlessScanPanics == result.tag # "Panic" => C8_PointerSizeClassifies
NewNeedsSymtabUnlessScanPanics == result.tag # "Panic" => C3_NewNeedsSymtab

\* with C2: find_address is as claimed whenever the file path does not panic and
\* the entries it reads from the buffer are aligned for u32 and u64
LiveThenFileUnlessPanic ==
    (/\ result.tag # "Panic"
     /\ buf_base = 0
     /\ session # NoSession
     /\ IsOk(file) /\ IsOk(ReadBytes(mem, session.page, HEADER_SIZE)) =>
            LET off == MemFind(file.val, ReadBytes(mem, session.page, HEADER_SIZE).val) IN
            IsSome(off) => off.val % 8 = 0)
        => C2_LiveThenFile

=============================================================================
